---- MODULE Spec2Model ----
(***************************************************************************)
(* A model of the go-starfighter REST client (client.go, error.go and the  *)
(* response structures).  A caller invokes Client.Call or one of the typed *)
(* methods; the request is built, given the authorization header and       *)
(* handed to the HTTP transport; the transport either fails or returns a   *)
(* response, which Call reads, decodes and classifies, and which the typed *)
(* method then re-decodes.  Several callers may use one Client at once.    *)
(***************************************************************************)
EXTENDS Integers, Sequences, FiniteSets, TLC

\* The goroutines that use the one Client concurrently.
Callers == {1, 2}
\* How many calls are begun in one run.
MaxCalls == 3

\* client.go:11-16
AuthHeader == "X-Starfighter-Authorization"
APILocation == "https://api.stockfighter.io/ob/api"

\* Values the embedding application may configure or pass.
Tokens == {"tokenA", "tokenB"}
\* "%zz" is an invalid URL escape: url.Parse, and so http.NewRequest, rejects it.
BadEscapes == {"%zz"}
Venues == {"TESTEX", "%zz"}
Stocks == {"FOO"}
Accounts == {"acct1"}
OrderIds == {7}
\* "G T" is not an HTTP token: http.NewRequest rejects it as a method.
InvalidMethods == {"G T"}
RawMethods == {"GET", "G T"}

(***************************************************************************)
(* JSON values.  Every value is a record of one shape, so that any two can *)
(* be compared: t is the JSON type, and b, s, n, l hold the value.         *)
(***************************************************************************)
JBool(x) == [t |-> "bool", b |-> x, s |-> "", n |-> 0, l |-> <<>>]
JStr(x) == [t |-> "string", b |-> FALSE, s |-> x, n |-> 0, l |-> <<>>]
JNum(x) == [t |-> "number", b |-> FALSE, s |-> "", n |-> x, l |-> <<>>]
JNull == [t |-> "null", b |-> FALSE, s |-> "", n |-> 0, l |-> <<>>]
\* a JSON array whose elements are objects, each a sequence of members
JList(x) == [t |-> "array", b |-> FALSE, s |-> "", n |-> 0, l |-> x]
Member(key, val) == [k |-> key, v |-> val]

\* The empty map (a Go map with no keys).
EmptyMap == [x \in {} |-> JNull]

\* An interface{} holding nil, or a map[string]interface{}.
Nil == [nil |-> TRUE, m |-> EmptyMap]
MapOf(f) == [nil |-> FALSE, m |-> f]

(***************************************************************************)
(* Byte streams.  A response body (and a buffer's content) is the text the *)
(* server sent: nothing, text that is not JSON, a JSON array, or a JSON    *)
(* object written as its members in order (a key may repeat).              *)
(***************************************************************************)
EmptyBytes == [kind |-> "empty", members |-> <<>>]
GarbageBytes == [kind |-> "garbage", members |-> <<>>]
ArrayBytes == [kind |-> "array", members |-> <<>>]
NullBytes == [kind |-> "null", members |-> <<>>]
ObjectBytes(ms) == [kind |-> "object", members |-> ms]

(***************************************************************************)
(* Errors.  kind "nil" is Go's nil error; "APIError" is *APIError          *)
(* (error.go:7-10) with its Code and Message; every other kind is an error *)
(* of the standard library, which is not an *APIError.                     *)
(***************************************************************************)
Err(kind) == [kind |-> kind, code |-> 0, msg |-> ""]
NoErr == Err("nil")
APIError(code, message) == [kind |-> "APIError", code |-> code, msg |-> message]

(***************************************************************************)
(* encoding/json, as the client uses it.                                   *)
(***************************************************************************)
\* The keys of PlaceStockOrder's payload in the order json.Encoder writes a
\* map's keys (sorted).
SortedKeys == <<"account", "direction", "orderType", "price", "qty", "stock", "venue">>

RECURSIVE EncodeMembers(_, _)
EncodeMembers(f, keys) ==
    IF keys = <<>> THEN <<>>
    ELSE IF Head(keys) \in DOMAIN f
         THEN <<Member(Head(keys), f[Head(keys)])>> \o EncodeMembers(f, Tail(keys))
         ELSE EncodeMembers(f, Tail(keys))

\* json.NewEncoder(buf).Encode(data): a nil interface is written as "null\n",
\* a map as a JSON object.  client.go:42-46
Encode(data) ==
    IF data.nil THEN NullBytes ELSE ObjectBytes(EncodeMembers(data.m, SortedKeys))

\* The index of the last member of ms with key key.
LastIndex(ms, key) ==
    CHOOSE i \in DOMAIN ms : ms[i].k = key /\ \A j \in DOMAIN ms : ms[j].k = key => j <= i

\* A JSON object's text decoded into a map[string]interface{}: of a repeated
\* key the last value stays.
ParseObject(ms) ==
    [key \in {ms[i].k : i \in DOMAIN ms} |-> ms[LastIndex(ms, key)].v]

\* Decoder.Decode reads one JSON value from the stream before it looks at the
\* target: io.EOF on an empty stream, a SyntaxError on text that is not JSON.
ReadValue(bytes) ==
    CASE bytes.kind = "empty" -> Err("EOF")
      [] bytes.kind = "garbage" -> Err("json.SyntaxError")
      [] OTHER -> NoErr

\* Decoder.Decode(v) for a map[string]interface{} target, v being the map
\* itself (isPointer = FALSE) or a pointer to it.  Unmarshal refuses a target
\* that is not a pointer with an InvalidUnmarshalError and stores nothing.
DecodeMap(bytes, isPointer) ==
    IF ReadValue(bytes) # NoErr THEN [m |-> EmptyMap, err |-> ReadValue(bytes)]
    ELSE IF ~isPointer THEN [m |-> EmptyMap, err |-> Err("json.InvalidUnmarshalError")]
    ELSE IF bytes.kind = "array" THEN [m |-> EmptyMap, err |-> Err("json.UnmarshalTypeError")]
    ELSE IF bytes.kind = "null" THEN [m |-> EmptyMap, err |-> NoErr]
    ELSE [m |-> ParseObject(bytes.members), err |-> NoErr]

\* The map passed as &body.
DecodeBodyByPointer == TRUE

\* client.go:68-70: body := map[string]interface{}{}; decoder.Decode(body).
\* The map is passed by value, not by pointer.
DecodeBodyTargetIsPointer == FALSE

(***************************************************************************)
(* The response structures (the json tags and field types of the types     *)
(* file), as a map from JSON key to the field's type.                      *)
(***************************************************************************)
StockQuoteShape ==
    [symbol |-> "string", venue |-> "string", bid |-> "number", ask |-> "number",
     bidSize |-> "number", askSize |-> "number", bidDepth |-> "number",
     askDepth |-> "number", last |-> "number", lastSize |-> "number",
     lastTrade |-> "time", quoteTime |-> "time"]
OrderBookShape ==
    [symbol |-> "string", venue |-> "string", asks |-> "array", bids |-> "array",
     ts |-> "time"]
OrderResultShape ==
    [symbol |-> "string", venue |-> "string", ts |-> "time", direction |-> "string",
     originalQty |-> "number", qty |-> "number", price |-> "number",
     type |-> "string", id |-> "number", account |-> "string",
     fills |-> "array", totalFilled |-> "number", open |-> "bool"]
OrderResultAltShape ==
    [symbol |-> "string", venue |-> "string", ts |-> "time", direction |-> "string",
     originalQty |-> "number", qty |-> "number", price |-> "number",
     id |-> "number", account |-> "string", fills |-> "array",
     totalFilled |-> "number", open |-> "bool", orderType |-> "string"]
OrderResultListShape == [orders |-> "array"]

\* The zero value of a field.
Zero(type) ==
    CASE type = "string" -> JStr("")
      [] type = "number" -> JNum(0)
      [] type = "bool" -> JBool(FALSE)
      [] type = "time" -> JStr("0001-01-01T00:00:00Z")
      [] OTHER -> JList(<<>>)

\* Whether Unmarshal stores JSON value v in a field of the given type
\* (a time.Time is read from a JSON string).
Fits(v, type) == v.t = (IF type = "time" THEN "string" ELSE type)

\* Decoder.Decode(&structure): a present key whose value fits is stored, a JSON
\* null leaves the field alone, a value of the wrong type is skipped and makes
\* Decode return an UnmarshalTypeError; the other fields are still stored.
DecodeStruct(bytes, shape) ==
    IF ReadValue(bytes) # NoErr
    THEN [err |-> ReadValue(bytes), fields |-> [key \in DOMAIN shape |-> Zero(shape[key])]]
    ELSE IF bytes.kind = "array"
    THEN [err |-> Err("json.UnmarshalTypeError"),
          fields |-> [key \in DOMAIN shape |-> Zero(shape[key])]]
    ELSE LET m == ParseObject(bytes.members)
             given(key) == key \in DOMAIN m /\ m[key].t # "null"
         IN [err |-> IF \E key \in DOMAIN shape : given(key) /\ ~Fits(m[key], shape[key])
                     THEN Err("json.UnmarshalTypeError") ELSE NoErr,
             fields |-> [key \in DOMAIN shape |->
                            IF given(key) /\ Fits(m[key], shape[key])
                            THEN m[key] ELSE Zero(shape[key])]]

(***************************************************************************)
(* Requests and responses.                                                 *)
(***************************************************************************)
NoBody == [bytes |-> EmptyBytes, present |-> FALSE]
BodyOf(bytes) == [bytes |-> bytes, present |-> TRUE]
NoRequest == [method |-> "", url |-> <<>>, header |-> {}, body |-> NoBody]

\* http.NewRequest(method, url, body): fails on a method that is not a token
\* and on a URL that does not parse; the new request has no header set.
NewRequest(method, url, body) ==
    IF method \in InvalidMethods \/ \E i \in DOMAIN url : url[i] \in BadEscapes
    THEN [err |-> Err("http.NewRequest"), req |-> NoRequest]
    ELSE [err |-> NoErr,
          req |-> [method |-> method, url |-> url, header |-> {}, body |-> body]]

\* client.go:41: the condition under which Call encodes data into a body.
EncodesPayload(data) == data.nil

\* client.go:40-53: the request Call builds, or the error it returns.  The
\* request is first built without a body and, when the payload is encoded,
\* built again with the encoded bytes; encoding a nil interface cannot fail.
BuildRequest(method, location, endpoint, data) ==
    LET url == <<location>> \o endpoint
    IN  IF EncodesPayload(data)
        THEN NewRequest(method, url, BodyOf(Encode(data)))
        ELSE NewRequest(method, url, NoBody)

\* CallReq without the header being added.
CallReqWithoutHeader(req, token) == req

\* client.go:29-32: CallReq adds the authorization header; the request then
\* goes to c.Client.Do.
CallReq(req, token) == [req EXCEPT !.header = @ \cup {<<AuthHeader, token>>}]

\* What the transport may answer.
Response(status, bytes) == [body |-> bytes, status |-> status, failed |-> FALSE]
TransportFailure == [body |-> EmptyBytes, status |-> 0, failed |-> TRUE]
NoResponse == [body |-> EmptyBytes, status |-> 0, failed |-> FALSE]

Responses ==
    { Response(400, ObjectBytes(<<Member("ok", JBool(FALSE)),
                                  Member("error", JStr("insufficient funds"))>>)),
      Response(200, ObjectBytes(<<Member("ok", JBool(TRUE)),
                                  Member("symbol", JStr("AAPL")),
                                  Member("venue", JStr("TESTEX")),
                                  Member("bid", JNum(100))>>)),
      Response(200, ObjectBytes(<<Member("ok", JBool(TRUE)),
                                  Member("symbols", JList(<<
                                      <<Member("name", JStr("Apple")),
                                        Member("symbol", JStr("AAPL"))>> >>))>>)),
      Response(200, ObjectBytes(<<Member("ok", JBool(TRUE))>>)),
      Response(500, ObjectBytes(<<Member("error", JNum(5)),
                                  Member("ok", JStr("yes"))>>)),
      Response(200, ObjectBytes(<<Member("ok", JBool(FALSE)),
                                  Member("error", JStr("")),
                                  Member("symbol", JNum(7))>>)),
      Response(200, EmptyBytes),
      Response(502, GarbageBytes),
      Response(200, ArrayBytes) }

(***************************************************************************)
(* Client.Call after the transport has answered.                           *)
(***************************************************************************)
\* What Call returns: the decoded object, the buffer holding the raw body
\* (0 is a nil pointer, otherwise the buffer's slot), the error; or a panic.
CallResult(obj, raw, err) == [err |-> err, obj |-> obj, raw |-> raw, panicked |-> FALSE]
CallPanic == [err |-> NoErr, obj |-> Nil, raw |-> 0, panicked |-> TRUE]

\* One buffer kept for all calls instead of a new one per call.
SharedBuffer(self) == 1

\* client.go:64: copy := &bytes.Buffer{}, a buffer of the call's own.
NewBuffer(self) == self

\* client.go:65-70: the tee reader writes to copy what the decoder reads
\* from the body: for bodies of this size one read takes all of it.
TeeCopy(bytes) == bytes

\* client.go:77: body["ok"] != false.  A missing key gives a nil interface,
\* which is not equal to false, and neither is a value that is not a bool.
OkIsNotFalse(m) == ~("ok" \in DOMAIN m /\ m["ok"] = JBool(FALSE))

\* client.go:80: body["error"].(string) panics unless the value is a string.
ErrorIsString(m) == "error" \in DOMAIN m /\ m["error"].t = "string"

\* client.go:61-84
CallOnResponse(response, buffer) ==
    LET d == DecodeMap(response.body, DecodeBodyTargetIsPointer)
    IN  IF d.err # NoErr THEN CallResult(Nil, buffer, d.err)
        ELSE IF OkIsNotFalse(d.m)
        THEN IF ErrorIsString(d.m)
             THEN CallResult(MapOf(d.m), buffer,
                             APIError(response.status, d.m["error"].s))
             ELSE CallPanic
        ELSE CallResult(MapOf(d.m), buffer, NoErr)

\* A transport failure reported as an error of the API.
CallOnTransportErrorAsAPIError == CallResult(Nil, 0, APIError(0, "transport"))

\* client.go:57-59
CallOnTransportError == CallResult(Nil, 0, Err("transport"))

\* client.go:51-53
CallOnRequestError(err) == CallResult(Nil, 0, err)

(***************************************************************************)
(* The typed methods: the call each makes, and what each returns.          *)
(***************************************************************************)
\* fmt.Sprintf on a path: the format's segments, with each %s and %d verb
\* replaced by the next argument, in the order the arguments are given.
RECURSIVE Sprintf(_, _)
Sprintf(format, args) ==
    IF format = <<>> THEN <<>>
    ELSE IF Head(format) = "%s"
         THEN <<Head(args)>> \o Sprintf(Tail(format), Tail(args))
    ELSE IF Head(format) = "%d"
         THEN <<ToString(Head(args))>> \o Sprintf(Tail(format), Tail(args))
    ELSE <<Head(format)>> \o Sprintf(Tail(format), args)

Request(method, endpoint, data) == [data |-> data, method |-> method, endpoint |-> endpoint]

\* client.go:89
HeartbeatCall == Request("GET", <<"heartbeat">>, Nil)
\* client.go:95
VenueHealthCheckCall(venue) ==
    Request("GET", Sprintf(<<"venues", "%s", "heartbeat">>, <<venue>>), Nil)
\* client.go:101
ListVenueStocksCall(venue) ==
    Request("GET", Sprintf(<<"venues", "%s", "stocks">>, <<venue>>), Nil)
\* client.go:120
GetStockOrderbookCall(venue, stock) ==
    Request("GET", Sprintf(<<"venues", "%s", "stocks", "%s">>, <<venue, stock>>), Nil)
\* client.go:135-143
PlaceStockOrderCall(account, venue, stock, price, qty, direction, ordertype) ==
    Request("POST", Sprintf(<<"venues", "%s", "stocks", "%s", "orders">>, <<venue, stock>>),
            MapOf([venue |-> JStr(venue), direction |-> JStr(direction),
                   qty |-> JNum(qty), price |-> JNum(price),
                   account |-> JStr(account), orderType |-> JStr(ordertype),
                   stock |-> JStr(stock)]))
\* client.go:160
QuoteStockCall(venue, stock) ==
    Request("GET", Sprintf(<<"venues", "%s", "stocks", "%s", "quote">>, <<venue, stock>>), Nil)
\* client.go:175
GetOrderStatusCall(venue, stock, order) ==
    Request("GET", Sprintf(<<"venues", "%s", "stocks", "%s", "orders", "%d">>,
                           <<venue, stock, order>>), Nil)
\* client.go:190
CancelOrderCall(venue, stock, order) ==
    Request("DELETE", Sprintf(<<"venues", "%s", "stocks", "%s", "orders", "%d">>,
                              <<venue, stock, order>>), Nil)
\* client.go:205
ListVenueOrderStatusCall(venue, account) ==
    Request("GET", Sprintf(<<"venues", "%s", "accounts", "%s", "orders">>,
                           <<venue, account>>), Nil)
\* client.go:220
ListVenueStockOrderStatusCall(venue, stock, account) ==
    Request("GET", Sprintf(<<"venues", "%s", "accounts", "%s", "stocks", "%s", "orders">>,
                           <<venue, stock, account>>), Nil)

\* The structure a typed method decodes the raw body into.
ShapeOf(op) ==
    CASE op = "GetStockOrderbook" -> OrderBookShape
      [] op = "PlaceStockOrder" -> OrderResultShape
      [] op = "QuoteStock" -> StockQuoteShape
      [] op \in {"GetOrderStatus", "CancelOrder"} -> OrderResultAltShape
      [] OTHER -> OrderResultListShape

\* What a method returns: a nil result or a value (a bool, a structure's
\* fields, a list of Stock), the error, and whether it decoded the raw body;
\* or a panic.
MethodResult(isNil, b, fields, list, err, decoded) ==
    [b |-> b, err |-> err, fields |-> fields, panicked |-> FALSE, isNil |-> isNil,
     list |-> list, decoded |-> decoded]
MethodPanic ==
    [b |-> FALSE, err |-> NoErr, fields |-> EmptyMap, panicked |-> TRUE, isNil |-> TRUE,
     list |-> <<>>, decoded |-> FALSE]
NoResult == MethodResult(TRUE, FALSE, EmptyMap, <<>>, NoErr, FALSE)

\* A method that goes on to decode whatever Call returned.
ReturnsEarlyNever(err) == FALSE

\* client.go:102, 121, 145, 161, 176, 191, 206, 221: if err != nil
ReturnsEarly(err) == err # NoErr

\* client.go:108: resp["symbols"].([]map[string]interface{}).  The decoder
\* stores a JSON array as []interface{}, which this assertion never accepts.
IsSliceOfMaps(v) == FALSE

\* client.go:110-111
IsStockEntry(item) ==
    LET m == ParseObject(item)
    IN  /\ "name" \in DOMAIN m /\ m["name"].t = "string"
        /\ "symbol" \in DOMAIN m /\ m["symbol"].t = "string"

\* client.go:106-115
ListStocks(m) ==
    IF ~("symbols" \in DOMAIN m /\ m["symbols"].t = "array") THEN MethodPanic
    ELSE IF ~IsSliceOfMaps(m["symbols"]) THEN MethodPanic
    ELSE IF \E i \in DOMAIN m["symbols"].l : ~IsStockEntry(m["symbols"].l[i])
    THEN MethodPanic
    ELSE MethodResult(FALSE, FALSE, EmptyMap,
                      [i \in DOMAIN m["symbols"].l |->
                          [Name |-> ParseObject(m["symbols"].l[i])["name"].s,
                           Symbol |-> ParseObject(m["symbols"].l[i])["symbol"].s]],
                      NoErr, FALSE)

\* What the method op returns, given what Call returned (cr) and the buffers.
MethodReturn(op, cr, buffers) ==
    IF cr.panicked THEN MethodPanic
    ELSE IF op = "Call"
    THEN MethodResult(cr.obj.nil, FALSE, cr.obj.m, <<>>, cr.err, FALSE)
    ELSE IF op \in {"Heartbeat", "VenueHealthCheck"}
    THEN MethodResult(FALSE, cr.err = NoErr, EmptyMap, <<>>, NoErr, FALSE)
    ELSE IF ReturnsEarly(cr.err) THEN MethodResult(TRUE, FALSE, EmptyMap, <<>>, cr.err, FALSE)
    ELSE IF op = "ListVenueStocks" THEN ListStocks(cr.obj.m)
    ELSE IF cr.raw = 0 THEN MethodPanic
    ELSE LET d == DecodeStruct(buffers[cr.raw], ShapeOf(op))
         IN  MethodResult(FALSE, FALSE, d.fields, <<>>, d.err, TRUE)

(***************************************************************************)
(* The state: the Client, and each caller's call in progress.              *)
(***************************************************************************)
VARIABLES
    Token,      \* Client.Token
    Location,   \* Client.Location
    pc,         \* per caller: "idle", "inflight" (waiting in Client.Do), "done"
    call,       \* per caller: the method called, its arguments and its Call
    sent,       \* per caller: the requests this call handed to the transport
    resp,       \* per caller: what the transport answered
    callRes,    \* per caller: what Call returned
    ret,        \* per caller: what the method returned
    bufs,       \* the buffers holding raw bodies, by slot
    ncalls      \* calls begun so far

vars == <<Token, Location, pc, call, sent, resp, callRes, ret, bufs, ncalls>>

NoArgs == [venue |-> "", account |-> "", stock |-> "", order |-> 0]
NoCall == [data |-> Nil, method |-> "", endpoint |-> <<>>, args |-> NoArgs, op |-> ""]
NoCallResult == CallResult(Nil, 0, NoErr)

Init ==
    /\ Token \in Tokens
    /\ Location = APILocation
    /\ pc = [p \in Callers |-> "idle"]
    /\ call = [p \in Callers |-> NoCall]
    /\ sent = [p \in Callers |-> <<>>]
    /\ resp = [p \in Callers |-> NoResponse]
    /\ callRes = [p \in Callers |-> NoCallResult]
    /\ ret = [p \in Callers |-> NoResult]
    /\ bufs = [slot \in Callers |-> EmptyBytes]
    /\ ncalls = 0

\* A caller enters method op, which calls Call(c.method, c.endpoint, c.data):
\* client.go:38-56, up to the request being handed to the transport.
Begin(p, op, c, args) ==
    /\ pc[p] = "idle"
    /\ ncalls < MaxCalls
    /\ ncalls' = ncalls + 1
    /\ call' = [call EXCEPT ![p] = [data |-> c.data, method |-> c.method,
                                    endpoint |-> c.endpoint, args |-> args,
                                    op |-> op]]
    /\ LET b == BuildRequest(c.method, Location, c.endpoint, c.data)
       IN  IF b.err # NoErr
           THEN /\ pc' = [pc EXCEPT ![p] = "done"]
                /\ callRes' = [callRes EXCEPT ![p] = CallOnRequestError(b.err)]
                /\ ret' = [ret EXCEPT ![p] = MethodReturn(op, CallOnRequestError(b.err), bufs)]
                /\ UNCHANGED sent
           ELSE /\ pc' = [pc EXCEPT ![p] = "inflight"]
                /\ sent' = [sent EXCEPT ![p] = Append(@, CallReq(b.req, Token))]
                /\ UNCHANGED <<callRes, ret>>
    /\ UNCHANGED <<Token, Location, resp, bufs>>

\* The payloads a caller of Call passes: none, or a map.
RawPayloads == {Nil, MapOf([qty |-> JNum(10)])}

Call(p) ==
    \E method \in RawMethods, data \in RawPayloads :
        Begin(p, "Call", Request(method, <<"heartbeat">>, data), NoArgs)

Heartbeat(p) == Begin(p, "Heartbeat", HeartbeatCall, NoArgs)

VenueHealthCheck(p) ==
    \E venue \in Venues :
        Begin(p, "VenueHealthCheck", VenueHealthCheckCall(venue),
              [NoArgs EXCEPT !.venue = venue])

ListVenueStocks(p) ==
    \E venue \in Venues :
        Begin(p, "ListVenueStocks", ListVenueStocksCall(venue),
              [NoArgs EXCEPT !.venue = venue])

GetStockOrderbook(p) ==
    \E venue \in Venues, stock \in Stocks :
        Begin(p, "GetStockOrderbook", GetStockOrderbookCall(venue, stock),
              [NoArgs EXCEPT !.venue = venue, !.stock = stock])

PlaceStockOrder(p) ==
    \E account \in Accounts, venue \in Venues, stock \in Stocks :
        Begin(p, "PlaceStockOrder",
              PlaceStockOrderCall(account, venue, stock, 100, 10, "buy", "limit"),
              [NoArgs EXCEPT !.venue = venue, !.stock = stock, !.account = account])

QuoteStock(p) ==
    \E venue \in Venues, stock \in Stocks :
        Begin(p, "QuoteStock", QuoteStockCall(venue, stock),
              [NoArgs EXCEPT !.venue = venue, !.stock = stock])

GetOrderStatus(p) ==
    \E venue \in Venues, stock \in Stocks, order \in OrderIds :
        Begin(p, "GetOrderStatus", GetOrderStatusCall(venue, stock, order),
              [NoArgs EXCEPT !.venue = venue, !.stock = stock, !.order = order])

CancelOrder(p) ==
    \E venue \in Venues, stock \in Stocks, order \in OrderIds :
        Begin(p, "CancelOrder", CancelOrderCall(venue, stock, order),
              [NoArgs EXCEPT !.venue = venue, !.stock = stock, !.order = order])

ListVenueOrderStatus(p) ==
    \E venue \in Venues, account \in Accounts :
        Begin(p, "ListVenueOrderStatus", ListVenueOrderStatusCall(venue, account),
              [NoArgs EXCEPT !.venue = venue, !.account = account])

ListVenueStockOrderStatus(p) ==
    \E venue \in Venues, stock \in Stocks, account \in Accounts :
        Begin(p, "ListVenueStockOrderStatus",
              ListVenueStockOrderStatusCall(venue, stock, account),
              [NoArgs EXCEPT !.venue = venue, !.stock = stock, !.account = account])

\* c.Client.Do returns an error: client.go:57-59, and the method's return.
TransportError(p) ==
    /\ pc[p] = "inflight"
    /\ pc' = [pc EXCEPT ![p] = "done"]
    /\ resp' = [resp EXCEPT ![p] = TransportFailure]
    /\ callRes' = [callRes EXCEPT ![p] = CallOnTransportError]
    /\ ret' = [ret EXCEPT ![p] = MethodReturn(call[p].op, CallOnTransportError, bufs)]
    /\ UNCHANGED <<Token, Location, call, sent, bufs, ncalls>>

\* c.Client.Do returns a response: client.go:61-84, and the method's return.
TransportResponse(p) ==
    \E r \in Responses :
        /\ pc[p] = "inflight"
        /\ pc' = [pc EXCEPT ![p] = "done"]
        /\ resp' = [resp EXCEPT ![p] = r]
        /\ bufs' = [bufs EXCEPT ![NewBuffer(p)] = TeeCopy(r.body)]
        /\ callRes' = [callRes EXCEPT ![p] = CallOnResponse(r, NewBuffer(p))]
        /\ ret' = [ret EXCEPT ![p] =
                      MethodReturn(call[p].op, CallOnResponse(r, NewBuffer(p)), bufs')]
        /\ UNCHANGED <<Token, Location, call, sent, ncalls>>

\* The caller takes the method's result and drops it; it may call again.
Return(p) ==
    /\ pc[p] = "done"
    /\ pc' = [pc EXCEPT ![p] = "idle"]
    /\ call' = [call EXCEPT ![p] = NoCall]
    /\ sent' = [sent EXCEPT ![p] = <<>>]
    /\ resp' = [resp EXCEPT ![p] = NoResponse]
    /\ callRes' = [callRes EXCEPT ![p] = NoCallResult]
    /\ ret' = [ret EXCEPT ![p] = NoResult]
    /\ bufs' = IF callRes[p].raw = 0 THEN bufs
               ELSE [bufs EXCEPT ![callRes[p].raw] = EmptyBytes]
    /\ UNCHANGED <<Token, Location, ncalls>>

Next ==
    \E p \in Callers :
        \/ Call(p)
        \/ Heartbeat(p)
        \/ VenueHealthCheck(p)
        \/ ListVenueStocks(p)
        \/ GetStockOrderbook(p)
        \/ PlaceStockOrder(p)
        \/ QuoteStock(p)
        \/ GetOrderStatus(p)
        \/ CancelOrder(p)
        \/ ListVenueOrderStatus(p)
        \/ ListVenueStockOrderStatus(p)
        \/ TransportError(p)
        \/ TransportResponse(p)
        \/ Return(p)

Spec == Init /\ [][Next]_vars

(***************************************************************************)
(* Properties.                                                             *)
(***************************************************************************)
Done(p) == pc[p] = "done"
\* The caller's call got a response whose body is a JSON object.
GotObject(p) == Done(p) /\ ~resp[p].failed /\ resp[p].body.kind = "object"
BodyMap(p) == ParseObject(resp[p].body.members)
TypedOps ==
    {"Heartbeat", "VenueHealthCheck", "ListVenueStocks", "GetStockOrderbook",
     "PlaceStockOrder", "QuoteStock", "GetOrderStatus", "CancelOrder",
     "ListVenueOrderStatus", "ListVenueStockOrderStatus"}

\* C1: for every response whose body is a JSON object, Call returns an
\* APIError exactly when the body's ok field is the boolean false, with the
\* response's status code as Code and the body's error string as Message;
\* in every other case Call returns no error.
C1_APIErrorIffOkFalse ==
    \A p \in Callers :
        GotObject(p) =>
            IF "ok" \in DOMAIN BodyMap(p) /\ BodyMap(p)["ok"] = JBool(FALSE)
            THEN ErrorIsString(BodyMap(p)) =>
                     callRes[p].err = APIError(resp[p].status, BodyMap(p)["error"].s)
            ELSE callRes[p].err = NoErr

\* C2: the request handed to the transport has a JSON body holding the
\* serialized payload if and only if the payload is non-nil; so only
\* PlaceStockOrder's request carries a body, its seven-field payload.
C2_BodyIffPayload ==
    \A p \in Callers : \A i \in DOMAIN sent[p] :
        /\ sent[p][i].body.present <=> ~call[p].data.nil
        /\ sent[p][i].body.present =>
               /\ sent[p][i].body.bytes.kind = "object"
               /\ ParseObject(sent[p][i].body.bytes.members) = call[p].data.m
        /\ call[p].op \in TypedOps =>
               (sent[p][i].body.present <=> call[p].op = "PlaceStockOrder")

\* C3: every request that reaches the transport, through Call or any typed
\* method and after any sequence of calls, carries the header
\* X-Starfighter-Authorization with exactly the client's Token as its value.
C3_AuthHeaderOnEveryRequest ==
    \A p \in Callers : \A i \in DOMAIN sent[p] :
        {h \in sent[p][i].header : h[1] = AuthHeader} = {<<AuthHeader, Token>>}

C3_Witness ==
    /\ ncalls >= 2
    /\ \E p \in Callers :
           /\ call[p].op = "PlaceStockOrder"
           /\ Len(sent[p]) = 1
           /\ <<AuthHeader, Token>> \in sent[p][1].header

\* C4: when the transport fails, Call returns an error that is not an
\* APIError, no decoded object and no raw body, and reads no response; an
\* APIError is only produced after the transport has returned a response.
C4_TransportFailureIsNotAPIError ==
    \A p \in Callers :
        /\ (Done(p) /\ resp[p].failed) =>
               /\ callRes[p].err.kind \notin {"nil", "APIError"}
               /\ callRes[p].obj.nil
               /\ callRes[p].raw = 0
               /\ ~callRes[p].panicked
               /\ bufs[NewBuffer(p)] = EmptyBytes
        /\ callRes[p].err.kind = "APIError" =>
               Done(p) /\ ~resp[p].failed /\ resp[p] \in Responses

C4_Witness ==
    \E p \in Callers :
        Done(p) /\ resp[p].failed /\ Len(sent[p]) = 1 /\ callRes[p].err = Err("transport")

\* The method and path of the specification's table of typed methods.
TableMethod(op) ==
    CASE op = "PlaceStockOrder" -> "POST"
      [] op = "CancelOrder" -> "DELETE"
      [] OTHER -> "GET"
TablePath(op, a) ==
    CASE op = "Heartbeat" -> <<"heartbeat">>
      [] op = "VenueHealthCheck" -> <<"venues", a.venue, "heartbeat">>
      [] op = "ListVenueStocks" -> <<"venues", a.venue, "stocks">>
      [] op = "GetStockOrderbook" -> <<"venues", a.venue, "stocks", a.stock>>
      [] op = "PlaceStockOrder" -> <<"venues", a.venue, "stocks", a.stock, "orders">>
      [] op = "QuoteStock" -> <<"venues", a.venue, "stocks", a.stock, "quote">>
      [] op \in {"GetOrderStatus", "CancelOrder"} ->
             <<"venues", a.venue, "stocks", a.stock, "orders", ToString(a.order)>>
      [] op = "ListVenueOrderStatus" -> <<"venues", a.venue, "accounts", a.account, "orders">>
      [] op = "ListVenueStockOrderStatus" ->
             <<"venues", a.venue, "accounts", a.account, "stocks", a.stock, "orders">>
RequestPerTable(p) ==
    /\ Len(sent[p]) <= 1
    /\ (Done(p) /\ callRes[p].err.kind # "http.NewRequest") => Len(sent[p]) = 1
    /\ \A i \in DOMAIN sent[p] :
           /\ sent[p][i].method = TableMethod(call[p].op)
           /\ sent[p][i].url = <<Location>> \o TablePath(call[p].op, call[p].args)

\* C5: each typed method issues exactly one HTTP request, with the method and
\* path of the specification's table and each argument in the path position
\* named for it.
C5_RequestPerTable ==
    \A p \in Callers : call[p].op \in TypedOps => RequestPerTable(p)

\* The same for every typed method but ListVenueStockOrderStatus.
RequestPerTableButOne ==
    \A p \in Callers :
        call[p].op \in TypedOps \ {"ListVenueStockOrderStatus"} => RequestPerTable(p)

\* C6: a typed method yields a result only when Call returned no error and
\* the typed decode succeeded; it returns Call's error unchanged with a nil
\* result and without decoding; Heartbeat and VenueHealthCheck return true
\* exactly when Call returned no error; when the typed decode fails the
\* method returns the decode error and no partially decoded result.
C6_MethodPropagatesCallError ==
    \A p \in Callers :
        (Done(p) /\ call[p].op \in TypedOps /\ ~ret[p].panicked) =>
            IF call[p].op \in {"Heartbeat", "VenueHealthCheck"}
            THEN ret[p].b <=> (callRes[p].err = NoErr)
            ELSE /\ callRes[p].err # NoErr =>
                        ret[p].err = callRes[p].err /\ ret[p].isNil /\ ~ret[p].decoded
                 /\ ~ret[p].isNil => (callRes[p].err = NoErr /\ ret[p].err = NoErr)
                 /\ (ret[p].decoded /\ ret[p].err # NoErr) => ret[p].isNil

C6_Witness ==
    \E p \in Callers :
        /\ Done(p) /\ call[p].op = "GetStockOrderbook"
        /\ ~resp[p].failed
        /\ callRes[p].err # NoErr
        /\ ret[p].err = callRes[p].err /\ ret[p].isNil

\* C7: on a response whose body is a JSON object with ok true, Call succeeds
\* and returns the decoded object and a raw buffer whose bytes equal the
\* body, so that decoding the buffer into a StockQuote gives the same field
\* values as the decoded object.
C7_RawBodyRoundTrip ==
    \A p \in Callers :
        (GotObject(p) /\ "ok" \in DOMAIN BodyMap(p) /\ BodyMap(p)["ok"] = JBool(TRUE)) =>
            /\ callRes[p].err = NoErr
            /\ ~callRes[p].obj.nil
            /\ callRes[p].obj.m = BodyMap(p)
            /\ callRes[p].raw # 0
            /\ bufs[callRes[p].raw] = resp[p].body
            /\ \A key \in DOMAIN StockQuoteShape \cap DOMAIN BodyMap(p) :
                   DecodeStruct(bufs[callRes[p].raw], StockQuoteShape).fields[key]
                       = callRes[p].obj.m[key]

\* The entries of the body's symbols list have a string name and symbol.
SymbolsListed(p) ==
    /\ GotObject(p)
    /\ "ok" \in DOMAIN BodyMap(p) /\ BodyMap(p)["ok"] = JBool(TRUE)
    /\ "symbols" \in DOMAIN BodyMap(p) /\ BodyMap(p)["symbols"].t = "array"
    /\ \A i \in DOMAIN BodyMap(p)["symbols"].l : IsStockEntry(BodyMap(p)["symbols"].l[i])

\* C8: for a successful response whose symbols field lists n objects with
\* string name and symbol, ListVenueStocks returns no error and exactly n
\* Stock values, the i-th with the Name and Symbol of the i-th entry.
C8_ListVenueStocksInOrder ==
    \A p \in Callers :
        (call[p].op = "ListVenueStocks" /\ SymbolsListed(p)) =>
            /\ ~ret[p].panicked
            /\ ret[p].err = NoErr
            /\ Len(ret[p].list) = Len(BodyMap(p)["symbols"].l)
            /\ \A i \in DOMAIN ret[p].list :
                   /\ ret[p].list[i].Name = ParseObject(BodyMap(p)["symbols"].l[i])["name"].s
                   /\ ret[p].list[i].Symbol = ParseObject(BodyMap(p)["symbols"].l[i])["symbol"].s

\* What a caller can observe of its own call.
Observed(p) == <<call[p], sent[p], resp[p], callRes[p], ret[p]>>
RawBody(p) == IF callRes[p].raw = 0 THEN EmptyBytes ELSE bufs[callRes[p].raw]

\* C9: under any interleaving of concurrent calls on one Client, no call
\* changes the Token or the Location; a step of one caller changes nothing
\* another caller observes of its own call, its raw buffer included; and two
\* calls with the same arguments and the same response have the same outcome.
C9_CallsAreIsolated ==
    [][/\ Token' = Token
       /\ Location' = Location
       /\ \A p \in Callers :
              pc'[p] = pc[p] => (Observed(p)' = Observed(p) /\ RawBody(p)' = RawBody(p))
       /\ \A p, q \in Callers :
              (pc'[p] = "done" /\ pc'[q] = "done"
                  /\ call'[p] = call'[q] /\ resp'[p] = resp'[q]) =>
                  /\ sent'[p] = sent'[q]
                  /\ callRes'[p].err = callRes'[q].err
                  /\ callRes'[p].obj = callRes'[q].obj
                  /\ ret'[p] = ret'[q]
                  /\ RawBody(p)' = RawBody(q)'
      ]_vars

C9_Witness ==
    \E p, q \in Callers :
        /\ p # q /\ Done(p) /\ Done(q)
        /\ ~resp[p].failed /\ ~resp[q].failed
        /\ resp[p].body # resp[q].body
        /\ RawBody(p) = resp[p].body /\ RawBody(q) = resp[q].body

\* C10: every Call and every typed method returns normally, with a result or
\* an error, whatever the transport does and whatever JSON object the body
\* is; none panics, also when the body has no error field or a non-string
\* one, or when symbols is missing or is a JSON list.
C10_NoPanic ==
    \A p \in Callers :
        /\ ~callRes[p].panicked
        /\ ~ret[p].panicked
        /\ pc[p] = "inflight" => ENABLED (TransportError(p) \/ TransportResponse(p))
        /\ Done(p) => (ret[p].err # NoErr \/ ~ret[p].isNil)

C10_Witness ==
    \E p, q \in Callers :
        /\ Done(p) /\ call[p].op = "ListVenueStocks" /\ SymbolsListed(p)
        /\ "error" \notin DOMAIN BodyMap(p)
        /\ Done(q) /\ call[q].op = "Call" /\ GotObject(q)
        /\ "error" \in DOMAIN BodyMap(q) /\ BodyMap(q)["error"].t # "string"

====
